---- MODULE Spec2Model ----
(***************************************************************************)
(* G1EvacuationFailureObjsInHR: the segmented lock-free log (Array/Node)   *)
(* and the per-region tracker built on it.                                 *)
(*                                                                         *)
(* Worker threads run add() one atomic access at a time; iterate_elements, *)
(* iterate_nodes, reset and the tracker's iterate are single-threaded and  *)
(* run only while no add is in flight, so each is one step.                *)
(***************************************************************************)
EXTENDS Integers, Sequences, FiniteSets, TLC

\* ---------------------------------------------------------------- bounds
\* Node<LEN, Elem>::LENGTH, the template parameter LEN (256 in the tracker),
\* scaled down.
LENGTH == 2
\* Array::_max_nodes_length, the constructor's argument.
max_nodes_length == 2
\* Half the width of the cursor word (32 in the source), scaled down.
HalfBits == 3
\* Width of the tracker's offset mask (set by the tracker's constructor).
OffsetBits == 2
\* The region's base address _bottom, in words.
Bottom == 16
\* Calls of record()/add() started in one run.
MaxAdds == 4

Threads == {1, 2, 3}

\* ------------------------------------------------------------- constants
TMP == 2 ^ HalfBits
LOW_MASK == TMP - 1
HIGH_MASK == LOW_MASK * TMP
offset_mask == (2 ^ OffsetBits) - 1

NULL == 0
NodeIds == 1 .. (max_nodes_length + 1)
Ptr == {NULL} \cup NodeIds
\* An Elem that was never written (AllocateHeap does not initialise).
Uninit == -1
\* The value of a read through a null or dangling Node pointer.
Wild == -2

\* The objects handed to record(): addresses inside the region.
Objs == {Bottom + 1, Bottom + offset_mask}

VARIABLES
  cur_pos,        \* Array::_cur_pos
  nodes,          \* Array::_nodes, the segment table
  elements_num,   \* Array::_elements_num
  heap,           \* the C heap's Node objects: allocated?, and their slots
  pc, pos, elem, node,   \* per thread: position in add(), and its locals
  crashed,        \* the process has terminated (trap)
  destroyed,      \* ~Array has run: the log no longer exists
  oob,            \* a segment-table index >= _max_nodes_length was accessed
  calls,          \* add() calls started so far in the run
  was_reset,      \* history: reset() has been called
  recorded,       \* history: the addresses given to record() since the last reset
  reserved,       \* history: the CAS wins since the last reset, in order
  wcount,         \* history: writes per (segment, slot) since the last reset
  completed,      \* history: add() calls returned since the last reset
  last            \* what the most recent single-threaded operation did

vars == <<cur_pos, nodes, elements_num, heap, pc, pos, elem, node, crashed,
          destroyed, oob, calls, was_reset, recorded, reserved, wcount, completed, last>>

\* ------------------------------------------------------- cursor packing
low(n) == n % TMP
high(n) == ((n \div TMP) % TMP) * TMP
elem_index(n) == low(n)
node_index(n) == high(n) \div TMP

\* next() with the slot index not cleared on the carry into the next segment.
next_keeps_lo(n) ==
  LET lo == low(n)
      hi == high(n)
  IN  IF lo + 1 = LENGTH THEN ((hi + TMP) % (TMP * TMP)) + lo
      ELSE hi + (lo + 1)

next(n) ==
  LET lo == low(n)
      hi == high(n)
  IN  IF lo + 1 = LENGTH THEN (hi + TMP) % (TMP * TMP)
      ELSE hi + (lo + 1)

\* The assertions of elem_index and next.
CursorAsserts(n) == low(n) < LENGTH /\ LENGTH <= LOW_MASK /\ high(n) < HIGH_MASK

\* ------------------------------------------------------------- the heap
FreshSlots == [j \in 0 .. (LENGTH - 1) |-> Uninit]
Allocated(h) == {p \in NodeIds : h[p].alloc}

\* Node::create_node: a Node not in use, its buffer uninitialised.
create_node(h) == CHOOSE p \in NodeIds : ~h[p].alloc /\ \A q \in NodeIds : ~h[q].alloc => p <= q

\* Node::operator[] for reading.
ReadSlot(h, p, j) == IF p \in NodeIds /\ h[p].alloc THEN h[p].slots[j] ELSE Wild

\* ---------------------------------------------------------- the tracker
\* cast_from_offset with the offset subtracted from the base.
cast_from_offset_minus(offset) == Bottom - offset
cast_from_offset(offset) == Bottom + offset
\* cast_from_oop_addr masking with one bit too few.
cast_from_oop_addr_narrow(obj) == (obj - Bottom) % ((offset_mask + 1) \div 2)
cast_from_oop_addr(obj) == (obj - Bottom) % (offset_mask + 1)

\* An address one region's width above an address of Objs: its word distance
\* from the base exceeds offset_mask.
Beyond == {Bottom + 1 + (offset_mask + 1)}

NoOp == [op |-> "none", visits |-> <<>>, limits |-> <<>>, frees |-> <<>>, ok |-> TRUE]

\* Array::Array: every table entry null, no element, the cursor at 0; no Node
\* is allocated yet.
EmptyTable == [i \in 0 .. (max_nodes_length - 1) |-> NULL]
EmptyHeap == [p \in NodeIds |-> [alloc |-> FALSE, slots |-> FreshSlots]]

Init ==
  /\ cur_pos = 0
  /\ nodes = EmptyTable
  /\ elements_num = 0
  /\ heap = EmptyHeap
  /\ pc = [t \in Threads |-> "idle"]
  /\ pos = [t \in Threads |-> 0]
  /\ elem = [t \in Threads |-> 0]
  /\ node = [t \in Threads |-> NULL]
  /\ crashed = FALSE
  /\ destroyed = FALSE
  /\ oob = FALSE
  /\ calls = 0
  /\ was_reset = FALSE
  /\ recorded = {}
  /\ reserved = <<>>
  /\ wcount = [c \in {} |-> 0]
  /\ completed = 0
  /\ last = NoOp

Quiescent == \A t \in Threads : pc[t] = "idle"

\* The process runs and the log exists.
Alive == ~crashed /\ ~destroyed

\* add() calls entered since the last reset: those that won their CAS and those
\* still trying.
Entered == Len(reserved) + Cardinality({t \in Threads : pc[t] \in {"load", "cas"}})

\* ------------------------------------------------------------ add(elem)
\* record(obj): the offset is computed and add() is entered, while fewer calls
\* than the table's capacity have been entered since the last reset. (The note
\* of the last single-threaded operation is dropped: the log changes again.)
record(t, obj) ==
  /\ Alive /\ pc[t] = "idle"
  /\ calls < MaxAdds /\ Entered < max_nodes_length * LENGTH
  /\ elem' = [elem EXCEPT ![t] = cast_from_oop_addr(obj)]
  /\ pc' = [pc EXCEPT ![t] = "load"]
  /\ calls' = calls + 1
  /\ recorded' = recorded \cup {obj}
  /\ last' = NoOp
  /\ UNCHANGED <<cur_pos, nodes, elements_num, heap, pos, node, crashed, destroyed, oob,
                 was_reset, reserved, wcount, completed>>

\* uint64_t pos = Atomic::load(&_cur_pos);
\* record(obj) with obj beyond the region. assert(offset_mask >= offset) stops
\* a build that compiles assertions; a build without them returns
\* offset & offset_mask, which record passes on to add.
record_beyond(t, obj) ==
  /\ Alive /\ pc[t] = "idle"
  /\ calls < MaxAdds /\ Entered < max_nodes_length * LENGTH
  /\ \E asserts \in BOOLEAN :
       IF asserts
         THEN /\ crashed' = TRUE
              /\ UNCHANGED <<elem, pc, recorded>>
         ELSE /\ elem' = [elem EXCEPT ![t] = cast_from_oop_addr(obj)]
              /\ pc' = [pc EXCEPT ![t] = "load"]
              /\ recorded' = recorded \cup {obj}
              /\ crashed' = FALSE
  /\ calls' = calls + 1
  /\ last' = NoOp
  /\ UNCHANGED <<cur_pos, nodes, elements_num, heap, pos, node, destroyed, oob,
                 was_reset, reserved, wcount, completed>>

add_load(t) ==
  /\ Alive /\ pc[t] = "load"
  /\ pos' = [pos EXCEPT ![t] = cur_pos]
  /\ pc' = [pc EXCEPT ![t] = "cas"]
  /\ UNCHANGED <<cur_pos, nodes, elements_num, heap, elem, node, crashed, destroyed, oob,
                 calls, was_reset, recorded, reserved, wcount, completed, last>>

\* add() with the cursor advanced by a plain store instead of the CAS.
add_cas_plain_store(t) ==
  /\ Alive /\ pc[t] = "cas"
  /\ cur_pos' = next(pos[t])
  /\ pc' = [pc EXCEPT ![t] = IF elem_index(pos[t]) = 0 THEN "publish" ELSE "spin"]
  /\ reserved' = Append(reserved, [pos |-> pos[t], elem |-> elem[t]])
  /\ UNCHANGED <<nodes, elements_num, heap, pos, elem, node, crashed, destroyed, oob,
                 calls, was_reset, recorded, wcount, completed, last>>

\* res = Atomic::cmpxchg(&_cur_pos, pos, next(pos)); if (res == pos) ...
\* (on failure the loop starts over and pos, a local of the loop body, is dead)
add_cas(t) ==
  /\ Alive /\ pc[t] = "cas"
  /\ IF cur_pos = pos[t]
       THEN /\ cur_pos' = next(pos[t])
            /\ pc' = [pc EXCEPT ![t] = IF elem_index(pos[t]) = 0 THEN "publish" ELSE "spin"]
            /\ reserved' = Append(reserved, [pos |-> pos[t], elem |-> elem[t]])
            /\ pos' = pos
       ELSE /\ pc' = [pc EXCEPT ![t] = "load"]
            /\ pos' = [pos EXCEPT ![t] = 0]
            /\ UNCHANGED <<cur_pos, reserved>>
  /\ UNCHANGED <<nodes, elements_num, heap, elem, node, crashed, destroyed, oob,
                 calls, was_reset, recorded, wcount, completed, last>>

\* add() allocating the Node without publishing it in the table.
add_publish_no_store(t) ==
  /\ Alive /\ pc[t] = "publish"
  /\ heap' = [heap EXCEPT ![create_node(heap)] = [alloc |-> TRUE, slots |-> FreshSlots]]
  /\ pc' = [pc EXCEPT ![t] = "spin"]
  /\ UNCHANGED <<cur_pos, nodes, elements_num, pos, elem, node, crashed, destroyed, oob,
                 calls, was_reset, recorded, reserved, wcount, completed, last>>

\* add() publishing the Node at the slot index instead of the segment index.
add_publish_at_lo(t) ==
  /\ Alive /\ pc[t] = "publish"
  /\ LET p == create_node(heap)
     IN  /\ heap' = [heap EXCEPT ![p] = [alloc |-> TRUE, slots |-> FreshSlots]]
         /\ nodes' = [nodes EXCEPT ![elem_index(pos[t])] = p]
  /\ pc' = [pc EXCEPT ![t] = "spin"]
  /\ UNCHANGED <<cur_pos, elements_num, pos, elem, node, crashed, destroyed, oob,
                 calls, was_reset, recorded, reserved, wcount, completed, last>>

\* if (lo == 0) Atomic::store(&_nodes[hi], NODE_XXX::create_node());
add_publish(t) ==
  /\ Alive /\ pc[t] = "publish"
  /\ LET hi == node_index(pos[t])
         p == create_node(heap)
     IN  /\ heap' = [heap EXCEPT ![p] = [alloc |-> TRUE, slots |-> FreshSlots]]
         /\ nodes' = [nodes EXCEPT ![hi] = p]
  /\ pc' = [pc EXCEPT ![t] = "spin"]
  /\ UNCHANGED <<cur_pos, elements_num, pos, elem, node, crashed, destroyed, oob,
                 calls, was_reset, recorded, reserved, wcount, completed, last>>

\* add() loading the table entry once, without waiting for it to be published.
add_spin_no_wait(t) ==
  /\ Alive /\ pc[t] = "spin"
  /\ node' = [node EXCEPT ![t] = nodes[node_index(pos[t])]]
  /\ pc' = [pc EXCEPT ![t] = "write"]
  /\ UNCHANGED <<cur_pos, nodes, elements_num, heap, pos, elem, crashed, destroyed, oob,
                 calls, was_reset, recorded, reserved, wcount, completed, last>>

\* while ((node = Atomic::load(&_nodes[hi])) == NULL);
add_spin(t) ==
  /\ Alive /\ pc[t] = "spin"
  /\ LET p == nodes[node_index(pos[t])]
     IN  /\ node' = [node EXCEPT ![t] = p]
         /\ pc' = [pc EXCEPT ![t] = IF p = NULL THEN "spin" ELSE "write"]
  /\ UNCHANGED <<cur_pos, nodes, elements_num, heap, pos, elem, crashed, destroyed, oob,
                 calls, was_reset, recorded, reserved, wcount, completed, last>>

Bump(f, c) == IF c \in DOMAIN f THEN [f EXCEPT ![c] = @ + 1] ELSE f @@ (c :> 1)

\* add() writing its element at the segment index instead of the slot index.
add_write_at_hi(t) ==
  /\ Alive /\ pc[t] = "write"
  /\ heap' = [heap EXCEPT ![node[t]].slots[node_index(pos[t]) % LENGTH] = elem[t]]
  /\ wcount' = Bump(wcount, <<node_index(pos[t]), node_index(pos[t]) % LENGTH>>)
  /\ pc' = [pc EXCEPT ![t] = "inc"]
  /\ UNCHANGED <<cur_pos, nodes, elements_num, pos, elem, node, crashed, destroyed, oob,
                 calls, was_reset, recorded, reserved, completed, last>>

\* node->operator[](lo) = elem;
add_write(t) ==
  /\ Alive /\ pc[t] = "write"
  /\ heap' = [heap EXCEPT ![node[t]].slots[elem_index(pos[t])] = elem[t]]
  /\ wcount' = Bump(wcount, <<node_index(pos[t]), elem_index(pos[t])>>)
  /\ pc' = [pc EXCEPT ![t] = "inc"]
  /\ UNCHANGED <<cur_pos, nodes, elements_num, pos, elem, node, crashed, destroyed, oob,
                 calls, was_reset, recorded, reserved, completed, last>>

\* Atomic::inc(&_elements_num); break;   (the locals die with the call)
add_inc(t) ==
  /\ Alive /\ pc[t] = "inc"
  /\ elements_num' = elements_num + 1
  /\ completed' = completed + 1
  /\ pc' = [pc EXCEPT ![t] = "idle"]
  /\ pos' = [pos EXCEPT ![t] = 0]
  /\ elem' = [elem EXCEPT ![t] = 0]
  /\ node' = [node EXCEPT ![t] = NULL]
  /\ UNCHANGED <<cur_pos, nodes, heap, crashed, destroyed, oob,
                 calls, was_reset, recorded, reserved, wcount, last>>

\* add(elem) run alone on a log: the CAS succeeds at once, a reserver of slot 0
\* publishes a new Node, the element is written and the counter incremented.
SeqAdd(log, e) ==
  LET hi == node_index(log.cur_pos)
      lo == elem_index(log.cur_pos)
      p == create_node(log.heap)
      h1 == IF lo = 0
              THEN [log.heap EXCEPT ![p] = [alloc |-> TRUE, slots |-> FreshSlots]]
              ELSE log.heap
      tbl1 == IF lo = 0 THEN [log.nodes EXCEPT ![hi] = p] ELSE log.nodes
  IN  [cur_pos |-> next(log.cur_pos),
       nodes |-> tbl1,
       heap |-> [h1 EXCEPT ![tbl1[hi]].slots[lo] = e],
       elements_num |-> log.elements_num + 1]

\* The elements of s added one after the other.
RECURSIVE AddAll(_, _)
AddAll(log, s) == IF s = <<>> THEN log ELSE AddAll(SeqAdd(log, Head(s)), Tail(s))

\* A log as Array::Array leaves it.
FreshLog == [cur_pos |-> 0, nodes |-> EmptyTable, heap |-> EmptyHeap, elements_num |-> 0]

\* ------------------------------------------- single-threaded operations
\* _nodes[i]; g is what a read past the end of the table yields.
NodeAt(tbl, i, g) == IF i < max_nodes_length THEN tbl[i] ELSE g
\* The limit with the two arms of the conditional exchanged.
Limit_swapped(i, hi, lo) == IF i = hi THEN LENGTH ELSE lo
\* uint32_t limit = (i == hi) ? lo : NODE_XXX::LENGTH;
Limit(i, hi, lo) == IF i = hi THEN lo ELSE LENGTH

\* The inner loop of iterate_elements: the elements visited in one Node.
ElemsOfNode(h, p, limit) == [j \in 1 .. limit |-> ReadSlot(h, p, j - 1)]

\* The outer loop of iterate_elements from segment i on: the elements visited.
RECURSIVE ElementsFrom(_, _, _, _, _)
ElementsFrom(h, tbl, i, hi, lo) ==
  IF i > hi THEN <<>>
  ELSE ElemsOfNode(h, NodeAt(tbl, i, NULL), Limit(i, hi, lo))
         \o ElementsFrom(h, tbl, i + 1, hi, lo)

\* The sequence iterate_elements hands to its visitor, for a log (cp, tbl, h).
VisitedElements(cp, tbl, h) == ElementsFrom(h, tbl, 0, node_index(cp), elem_index(cp))

iterate_elements ==
  /\ Alive /\ Quiescent
  /\ LET seq == VisitedElements(cur_pos, nodes, heap)
     IN  last' = [op |-> "iterate_elements", visits |-> seq, limits |-> <<>>,
                  frees |-> <<>>, ok |-> (Len(seq) = elements_num)]
  /\ oob' = (oob \/ node_index(cur_pos) >= max_nodes_length)
  /\ UNCHANGED <<cur_pos, nodes, elements_num, heap, pc, pos, elem, node,
                 crashed, destroyed, calls, was_reset, recorded, reserved, wcount, completed>>

\* The (node, limit) pairs iterate_nodes hands to its visitor.
NodeVisits(cp, tbl, g) ==
  [k \in 1 .. (node_index(cp) + 1) |->
     <<NodeAt(tbl, k - 1, g), Limit(k - 1, node_index(cp), elem_index(cp))>>]

iterate_nodes ==
  /\ Alive /\ Quiescent
  /\ \E g \in Ptr :
       last' = [op |-> "iterate_nodes", visits |-> <<>>,
                limits |-> NodeVisits(cur_pos, nodes, g), frees |-> <<>>, ok |-> TRUE]
  /\ oob' = (oob \/ node_index(cur_pos) >= max_nodes_length)
  /\ UNCHANGED <<cur_pos, nodes, elements_num, heap, pc, pos, elem, node,
                 crashed, destroyed, calls, was_reset, recorded, reserved, wcount, completed>>

\* Atomic::store(&_nodes[hi], NULL); a store past the end leaves the table as is.
NullAt(tbl, i) == IF i < max_nodes_length THEN [tbl EXCEPT ![i] = NULL] ELSE tbl

\* The loop of reset() from segment i on. free_node(p) with p null or not an
\* allocated Node dereferences an invalid pointer: the process traps, or (trap
\* = FALSE) the call has no effect and the loop goes on. frees lists what was
\* handed to free_node: the pointer, and whether it was an allocated Node.
RECURSIVE ResetLoop(_, _, _, _, _, _, _)
ResetLoop(h, tbl, fr, i, hi, trap, g) ==
  IF i > hi THEN [heap |-> h, nodes |-> tbl, frees |-> fr, crashed |-> FALSE]
  ELSE LET p == NodeAt(tbl, i, g)
       IN  IF p \in NodeIds /\ h[p].alloc
             THEN ResetLoop([h EXCEPT ![p] = [alloc |-> FALSE, slots |-> FreshSlots]],
                            NullAt(tbl, i), Append(fr, <<p, TRUE>>), i + 1, hi, trap, g)
           ELSE IF trap
             THEN [heap |-> h, nodes |-> tbl, frees |-> Append(fr, <<p, FALSE>>),
                   crashed |-> TRUE]
           ELSE ResetLoop(h, NullAt(tbl, i), Append(fr, <<p, FALSE>>), i + 1, hi, trap, g)

\* The body of reset(), noted in last under the name of the operation that ran it.
ResetBody(opname) ==
  /\ Alive /\ Quiescent
  /\ \E trap \in BOOLEAN, g \in Ptr :
       LET r == ResetLoop(heap, nodes, <<>>, 0, node_index(cur_pos), trap, g)
       IN  /\ heap' = r.heap
           /\ nodes' = r.nodes
           /\ crashed' = r.crashed
           /\ last' = [op |-> opname, visits |-> <<>>, limits |-> <<>>,
                       frees |-> r.frees, ok |-> ~r.crashed]
           /\ IF r.crashed
                THEN UNCHANGED <<elements_num, cur_pos, recorded, reserved, wcount,
                                 completed>>
                ELSE /\ elements_num' = 0
                     /\ cur_pos' = 0
                     /\ recorded' = {}
                     /\ reserved' = <<>>
                     /\ wcount' = [c \in {} |-> 0]
                     /\ completed' = 0
  /\ was_reset' = TRUE
  /\ oob' = (oob \/ node_index(cur_pos) >= max_nodes_length)
  /\ UNCHANGED <<pc, pos, elem, node, calls>>

reset == ResetBody("reset") /\ UNCHANGED destroyed

\* ~Array: reset(), then the table is freed; nothing runs on the log afterwards
\* (if reset() trapped, the process is gone anyway).
destroy == ResetBody("~Array") /\ destroyed' = TRUE

\* --------------------------------------------------- the tracker's iterate
\* sort(): the offsets in ascending order.
RECURSIVE Insert(_, _)
Insert(x, s) ==
  IF s = <<>> THEN <<x>>
  ELSE IF x <= Head(s) THEN <<x>> \o s
  ELSE <<Head(s)>> \o Insert(x, Tail(s))

RECURSIVE sort(_)
sort(s) == IF s = <<>> THEN <<>> ELSE Insert(Head(s), sort(Tail(s)))

\* Normalisation drops the repeated entries of a sorted sequence.
RECURSIVE Dedup(_)
Dedup(s) ==
  IF Len(s) <= 1 THEN s
  ELSE IF s[1] = s[2] THEN Dedup(Tail(s))
  ELSE <<Head(s)>> \o Dedup(Tail(s))

\* compact(): the recorded offsets, copied out of the log.
compact == VisitedElements(cur_pos, nodes, heap)

\* iterate_internal(): the addresses handed to the closure.
iterate_internal(offsets) == [k \in 1 .. Len(offsets) |-> cast_from_offset(offsets[k])]

iterate ==
  /\ Alive /\ Quiescent
  /\ last' = [op |-> "iterate", visits |-> iterate_internal(Dedup(sort(compact))),
              limits |-> <<>>, frees |-> <<>>, ok |-> TRUE]
  /\ oob' = (oob \/ node_index(cur_pos) >= max_nodes_length)
  /\ UNCHANGED <<cur_pos, nodes, elements_num, heap, pc, pos, elem, node,
                 crashed, destroyed, calls, was_reset, recorded, reserved, wcount, completed>>

Next ==
  \/ \E t \in Threads, obj \in Objs : record(t, obj)
  \/ \E t \in Threads : add_load(t)
  \/ \E t \in Threads : add_cas(t)
  \/ \E t \in Threads : add_publish(t)
  \/ \E t \in Threads : add_spin(t)
  \/ \E t \in Threads : add_write(t)
  \/ \E t \in Threads : add_inc(t)
  \/ iterate_elements
  \/ iterate_nodes
  \/ reset
  \/ destroy
  \/ iterate

Spec == Init /\ [][Next]_vars

\* The tracker used with addresses inside and beyond its region.
BeyondNext ==
  \/ Next
  \/ \E t \in Threads, obj \in Beyond : record_beyond(t, obj)

BeyondSpec == Init /\ [][BeyondNext]_vars

\* A worker thread that can take a step of add() eventually takes one.
ThreadStep(t) ==
  \/ add_load(t) \/ add_cas(t) \/ add_publish(t)
  \/ add_spin(t) \/ add_write(t) \/ add_inc(t)

FairSpec == Init /\ [][Next]_vars /\ \A t \in Threads : WF_vars(ThreadStep(t))

\* ------------------------------------------------------------ the claims
Range(s) == {s[k] : k \in DOMAIN s}
\* How often v occurs in the sequence s.
Count(s, v) == Cardinality({k \in DOMAIN s : s[k] = v})
SameBag(s1, s2) ==
  /\ Len(s1) = Len(s2)
  /\ \A v \in Range(s1) \cup Range(s2) : Count(s1, v) = Count(s2, v)
\* The elements handed to add(), in the order of their reservations.
AddedElems == [k \in 1 .. Len(reserved) |-> reserved[k].elem]
\* The linear position of a cursor value.
Linear(n) == node_index(n) * LENGTH + elem_index(n)
Coord(n) == <<node_index(n), elem_index(n)>>
InFlight == {t \in Threads : pc[t] \in {"publish", "spin", "write", "inc"}}

\* C1: once all add calls have completed, objs_num() is the number of calls
\* and iterate_elements visits exactly that many elements, the same multiset
\* as the elements added (none lost, none duplicated).
C1_ConcurrentCompleteness ==
  last.op = "iterate_elements" =>
    /\ elements_num = Len(reserved)
    /\ Len(last.visits) = Len(reserved)
    /\ SameBag(last.visits, AddedElems)

C1_Witness ==
  /\ last.op = "iterate_elements"
  /\ Len(last.visits) = max_nodes_length * LENGTH
  /\ \E i, j \in 1 .. Len(last.visits) : i # j /\ last.visits[i] = last.visits[j]
  /\ \E i, j \in 1 .. Len(last.visits) : last.visits[i] # last.visits[j]

\* C2: between two resets no two add calls win their CAS with the same old
\* cursor value; every slot is written at most once, and what it holds is the
\* element of the call that reserved it. (A reset that trapped half-way has
\* freed segments and left the history as it was: that state is inside a
\* reset, not between two.)
C2_ExclusiveReservation ==
  crashed \/
  /\ \A i, j \in 1 .. Len(reserved) : i # j => reserved[i].pos # reserved[j].pos
  /\ \A c \in DOMAIN wcount :
       /\ wcount[c] = 1
       /\ \E k \in 1 .. Len(reserved) :
            /\ Coord(reserved[k].pos) = c
            /\ ReadSlot(heap, nodes[c[1]], c[2]) = reserved[k].elem
  /\ \A t \in InFlight : \E k \in 1 .. Len(reserved) : reserved[k].pos = pos[t]

\* Two threads read the same cursor value; one has won it, the other is about
\* to fail its CAS.
C2_Witness ==
  \E t \in Threads :
    /\ pc[t] = "cas" /\ pos[t] # cur_pos
    /\ \E k \in 1 .. Len(reserved) : reserved[k].pos = pos[t]
    /\ \E c \in DOMAIN wcount : c = Coord(pos[t])

\* C4: with no add in flight, iterate_elements visits slots 0..LENGTH-1 of
\* every segment below the cursor's segment index in ascending order, then
\* slots 0..lo-1 of the cursor's segment, nothing else, and its closing
\* assertion (visits = objs_num()) holds.
C4_IterateElementsBound ==
  last.op = "iterate_elements" =>
    /\ Len(last.visits) = node_index(cur_pos) * LENGTH + elem_index(cur_pos)
    /\ \A k \in 1 .. Len(last.visits) :
         last.visits[k] = heap[nodes[(k - 1) \div LENGTH]].slots[(k - 1) % LENGTH]
    /\ last.ok

C4_Witness ==
  /\ last.op = "iterate_elements"
  /\ node_index(cur_pos) >= 1 /\ elem_index(cur_pos) >= 1
  /\ Len(last.visits) = LENGTH + elem_index(cur_pos)

\* C9: in every reachable state objs_num() is the number of completed add
\* calls, and the cursor's linear position exceeds it by the number of adds
\* that have won their CAS and not yet incremented the counter.
C9_CounterInvariant ==
  /\ elements_num = completed
  /\ Linear(cur_pos) - elements_num = Cardinality(InFlight)
  /\ elements_num <= Linear(cur_pos)
  /\ Quiescent => elements_num = Linear(cur_pos)

C9_Witness ==
  /\ Cardinality(InFlight) = 2
  /\ elements_num >= LENGTH
  /\ Linear(cur_pos) = elements_num + 2

\* C6: once the adds since construction or the last reset have all completed,
\* n >= 1 of them, exactly ceil(n / LENGTH) segments are allocated and they
\* are the table entries 0 .. ceil(n / LENGTH) - 1.
Segments(n) == (n + LENGTH - 1) \div LENGTH

C6_SegmentCount ==
  (Quiescent /\ ~crashed /\ completed >= 1) =>
    /\ Cardinality(Allocated(heap)) = Segments(completed)
    /\ \A i \in 0 .. (max_nodes_length - 1) :
         IF i < Segments(completed) THEN nodes[i] \in Allocated(heap)
         ELSE nodes[i] = NULL
    /\ \A i, j \in 0 .. (Segments(completed) - 1) : i # j => nodes[i] # nodes[j]

\* LENGTH + 1 insertions: the second segment holds one element.
C6_Witness ==
  /\ Quiescent /\ ~crashed /\ completed = LENGTH + 1
  /\ Cardinality(Allocated(heap)) = 2
  /\ was_reset

\* C10: between resets a table entry goes from null to non-null at most once:
\* a step of add changes entry i only from null, and only the add that
\* reserved (i, 0) does so; a non-null entry is never overwritten by add.
C10_SinglePublication ==
  [][~(Quiescent /\ last'.op \in {"reset", "~Array"}) =>
       \A i \in 0 .. (max_nodes_length - 1) :
         nodes'[i] # nodes[i] =>
           /\ nodes[i] = NULL
           /\ \E t \in Threads :
                /\ pc[t] = "publish" /\ pc'[t] = "spin"
                /\ Coord(pos[t]) = <<i, 0>>
                /\ \E k \in 1 .. Len(reserved) : reserved[k].pos = pos[t]]_vars

\* Both entries published while an add that reserved a slot > 0 is in flight.
C10_Witness ==
  /\ \A i \in 0 .. (max_nodes_length - 1) : nodes[i] # NULL
  /\ \E t \in Threads : pc[t] \in {"spin", "write"} /\ elem_index(pos[t]) > 0

\* The addresses of the objects whose offsets the log holds.
IsAscending(s) == \A k \in 1 .. (Len(s) - 1) : s[k] < s[k + 1]

C5_ResetEquivalence ==
  (was_reset /\ Quiescent) =>
    /\ ~crashed
    /\ LET f == AddAll(FreshLog, AddedElems)
       IN  /\ elements_num = f.elements_num
           /\ VisitedElements(cur_pos, nodes, heap)
                = VisitedElements(f.cur_pos, f.nodes, f.heap)

\* C3: with every thread that can take a step of add() eventually taking one,
\* every add call returns (its element stored, the counter incremented), and
\* every thread waiting for a segment pointer eventually reads it non-null.
\* (A call leaves "spin" only by reading the pointer non-null, and reaches
\* "idle" only by incrementing the counter after its write.)
C3_AddCompletes ==
  \A t \in Threads :
    /\ []<>(pc[t] = "idle")
    /\ []<>(pc[t] # "spin")

\* A thread that reserved a slot > 0 waits for a segment not yet published.
C3_Witness ==
  \E t \in Threads :
    /\ pc[t] = "spin" /\ elem_index(pos[t]) > 0
    /\ nodes[node_index(pos[t])] = NULL

\* C11 (publish-before-write): an add that is about to write, or has written,
\* its element holds a non-null pointer, and that pointer is the allocated
\* segment published in table entry hi of its reservation; after the write the
\* element sits in slot lo of that segment. No write goes through a null or
\* unpublished pointer.
C11_PublishBeforeWrite ==
  \A t \in Threads :
    pc[t] \in {"write", "inc"} =>
      /\ node[t] # NULL
      /\ node[t] = nodes[node_index(pos[t])]
      /\ node[t] \in Allocated(heap)
      /\ pc[t] = "inc" => ReadSlot(heap, node[t], elem_index(pos[t])) = elem[t]

\* A reserver of a slot lo > 0 wrote its element while the reserver of slot 0
\* of the same segment, which published it, has not yet left its own wait.
C11_Witness ==
  \E t, u \in Threads :
    /\ pc[t] = "inc" /\ elem_index(pos[t]) > 0
    /\ pc[u] = "spin" /\ elem_index(pos[u]) = 0
    /\ node_index(pos[u]) = node_index(pos[t])

\* A step of reset() or of the destructor.
ResetStep == Quiescent /\ last'.op \in {"reset", "~Array"}

\* The position after n: the next slot, or slot 0 of the next segment.
Successor(n) ==
  IF elem_index(n) = LENGTH - 1 THEN <<node_index(n) + 1, 0>>
  ELSE <<node_index(n), elem_index(n) + 1>>

\* C12 (cursor well-formedness): the assertions of elem_index and next hold of
\* every value the cursor takes (its slot index is below LENGTH); between
\* resets the cursor never decreases; and each successful CAS moves the linear
\* position by exactly 1, from slot LENGTH-1 to slot 0 of the next segment.
C12_CursorWellFormed ==
  [][/\ CursorAsserts(cur_pos) /\ CursorAsserts(cur_pos')
     /\ ~ResetStep =>
          /\ cur_pos' >= cur_pos
          /\ (Len(reserved') > Len(reserved)) = (cur_pos' # cur_pos)
          /\ cur_pos' # cur_pos =>
               /\ Linear(cur_pos') = Linear(cur_pos) + 1
               /\ Coord(cur_pos') = Successor(cur_pos)]_vars

\* The cursor has carried into a later segment and moved on from its slot 0.
C12_Witness ==
  /\ ~was_reset
  /\ node_index(cur_pos) >= 1
  /\ elem_index(cur_pos) = LENGTH - 1
  /\ Len(reserved) = Linear(cur_pos)

\* C13 (replay follows reservation order): when iterate_elements has run with
\* every add completed, the p-th reservation (p from 0) moved the cursor from
\* linear position p, and the p-th visited element is the element of that add,
\* whatever the order of the writes and increments was.
C13_ReplayReservationOrder ==
  last.op = "iterate_elements" =>
    /\ Len(last.visits) = Len(reserved)
    /\ \A k \in 1 .. Len(reserved) :
         /\ Linear(reserved[k].pos) = k - 1
         /\ last.visits[k] = reserved[k].elem

\* A replay of at least three elements, spread over two segments, whose order
\* is not the order of their values.
C13_Witness ==
  /\ last.op = "iterate_elements"
  /\ Len(last.visits) > LENGTH
  /\ \E k \in 1 .. (Len(last.visits) - 1) : last.visits[k] > last.visits[k + 1]

\* C14 (reset post-state): a reset() called with nothing in flight runs to its
\* end, hands every allocated segment to free_node exactly once and nothing
\* twice, and leaves every table entry null, the cursor 0 and the counter 0.
C14_ResetPostState ==
  last.op = "reset" =>
    /\ ~crashed /\ last.ok
    /\ Allocated(heap) = {}
    /\ \A j, k \in 1 .. Len(last.frees) :
         (j # k /\ last.frees[j][1] # NULL) => last.frees[j][1] # last.frees[k][1]
    /\ \A i \in DOMAIN nodes : nodes[i] = NULL
    /\ cur_pos = 0
    /\ elements_num = 0

\* C15 (offset overflow fails fast): no address whose word distance from the
\* region base exceeds offset_mask is ever inserted, and no two distinct
\* recorded addresses are stored as the same offset.
C15_OverflowFailsFast ==
  /\ \A o \in recorded : o - Bottom <= offset_mask
  /\ \A a, b \in recorded : a # b => cast_from_oop_addr(a) # cast_from_oop_addr(b)

\* The addresses of the region: word distance 0 .. offset_mask from the base.
Region == Bottom .. (Bottom + offset_mask)

\* C16 (offset round-trip): on the addresses of the region, cast_from_offset
\* undoes cast_from_oop_addr and cast_from_oop_addr is injective; every offset
\* that record handed to add converts back to a recorded address.
C16_OffsetRoundTrip ==
  /\ \A o \in Region : cast_from_offset(cast_from_oop_addr(o)) = o
  /\ \A a, b \in Region : a # b => cast_from_oop_addr(a) # cast_from_oop_addr(b)
  /\ \A t \in Threads : pc[t] # "idle" => cast_from_offset(elem[t]) \in recorded
  /\ \A k \in 1 .. Len(reserved) : cast_from_offset(reserved[k].elem) \in recorded

\* Both input addresses, among them the last of the region, went through
\* record, and the replay handed both back.
C16_Witness ==
  /\ recorded = Objs
  /\ Bottom + offset_mask \in recorded
  /\ last.op = "iterate"
  /\ Range(last.visits) = Objs

\* C17 (table bounds within capacity): with at most max_nodes_length * LENGTH
\* adds between resets, no operation has read or written a table index at or
\* above max_nodes_length, and every add in flight works on an index below it.
C17_TableBounds ==
  /\ ~oob
  /\ \A t \in InFlight : node_index(pos[t]) < max_nodes_length

\* C18 (reset frees only allocated segments): every pointer that reset(), run
\* on its own or by the destructor, handed to free_node was non-null and was
\* an allocated segment at that moment.
C18_ResetFreesAllocated ==
  last.op \in {"reset", "~Array"} =>
    \A k \in 1 .. Len(last.frees) :
      last.frees[k][1] # NULL /\ last.frees[k][2]

\* The number of elements recorded in segment i.
RecordedIn(i) == Cardinality({k \in 1 .. Len(reserved) : node_index(reserved[k].pos) = i})

RECURSIVE SumLimits(_, _)
SumLimits(v, k) == IF k = 0 THEN 0 ELSE v[k][2] + SumLimits(v, k - 1)

\* C19 (iterate_nodes passes only allocated segments): the k-th visitor call of
\* iterate_nodes receives the non-null, allocated segment of table entry k-1
\* with the number of elements recorded in it as limit, and the limits sum to
\* objs_num().
C19_IterateNodesAllocated ==
  last.op = "iterate_nodes" =>
    /\ \A k \in 1 .. Len(last.limits) :
         /\ last.limits[k][1] # NULL
         /\ last.limits[k][1] \in Allocated(heap)
         /\ k - 1 \in DOMAIN nodes /\ last.limits[k][1] = nodes[k - 1]
         /\ last.limits[k][2] = RecordedIn(k - 1)
    /\ SumLimits(last.limits, Len(last.limits)) = elements_num

====
